---------------------------- MODULE Spec2Model ----------------------------
(***************************************************************************)
(* ADC-24 electrophysiology dashboard: the shared AppState (ring buffer,   *)
(* session counters, CSV handle), the recording threads, the ADC24Driver   *)
(* stream generator, the start/stop handlers and the 10 Hz broadcaster of  *)
(* applications/adc24-dashboard/server.                                    *)
(*                                                                         *)
(* Timestamps are sample ordinals (the demo worker's t / dt); voltages are *)
(* integers in microvolts.                                                 *)
(***************************************************************************)
EXTENDS Integers, Sequences, FiniteSets, TLC

\* ------------------------------------------------------------------ bounds
\* Largest ring-buffer capacity drawn in Init (the program builds 3000 slots).
MaxCap == 3
\* Samples the sources deliver per run, over all sessions.
MaxSamples == 3
\* Of these, how many may be spikes (the others are 0 uV baseline).
MaxSpikes == 1
\* Accepted starts per run (each creates one thread).
MaxThreads == 2
\* Largest last_n handed to get_buffer_data by the direct-call specification.
MaxLastN == 4

\* Sinks that may connect to /ws/stream.
MaxSinks == 1
\* Samples per broadcast, at most (100 in the program).
CapPerTick == 3
\* Trailing samples handed to the filter (110 in the program).
FilterWindow == 12
\* Samples the demo source delivers in the filter-window specification.
BcSamples == 11

\* Amplitude of the one spike the sources may emit, in microvolts.
SpikeUv == 50
\* a source delivers its spikes among its last SpikeTail samples
SpikeTail == 3
\* Longest window passed to signal_processing by a direct caller.
MaxWindow == 20
\* Longest window whose every combination of values is passed.
MaxShort == 3

VARIABLES
    \* AppState (main.py:74-98)
    buffer_size, times_buffer, voltage_buffer, buffer_idx, buffer_filled,
    sample_count, peak_count, recording, session_id, csv_file, csv_writer,
    record_thread, ws_clients,
    \* the files on disk: data rows written, per session
    csv_rows,
    \* ADC24Driver (adc24_driver.py:122-128)
    connected, streaming, stop_event, config,
    \* the recording threads ever started, by thread id
    threads,
    \* what the sample sources may still deliver: samples, and spikes among them
    source_left, spikes_left,
    \* the event-loop thread: the handler it is in, and the last response
    handler, response,
    \* _broadcast_loop's locals
    bc,
    \* a direct caller of get_buffer_data: its position and locals
    rd,
    \* a direct caller of signal_processing: its arrays and what it got back
    sp,
    \* history: samples whose add_sample reached line 105, this session
    pushed,
    \* history: what the broadcaster has published this session
    published

appvars == <<buffer_size, times_buffer, voltage_buffer, buffer_idx, buffer_filled,
             sample_count, peak_count, recording, session_id, csv_file,
             csv_writer, record_thread, ws_clients, csv_rows>>
drvvars == <<connected, streaming, stop_event, config>>
vars == <<appvars, drvvars, threads, source_left, spikes_left, handler, response, bc, rd, sp, pushed, published>>

\* ----------------------------------------------------------- numpy helpers

Min(a, b) == IF a < b THEN a ELSE b
Max(a, b) == IF a > b THEN a ELSE b

\* np.zeros(n) as a 0-based array
Zeros(n) == [i \in 0..(n - 1) |-> 0]

\* a[:n].copy() for 0 <= n <= len(a): the first n slots, as a sequence
Head_n(a, n) == [i \in 1..n |-> a[i - 1]]

\* the slots in storage order, whatever the cursor
Rotated_NoWrap(a, start, size) == Head_n(a, size)

\* a[np.arange(start, start + size) % size].copy()
Rotated(a, start, size) == [i \in 1..size |-> a[(start + i - 1) % size]]

\* Python's s[k:] for any integer k: a negative k counts from the end and is
\* clipped at 0, a k past the end gives the empty sequence.
SliceFrom(s, k) ==
    LET from == IF k < 0 THEN Max(Len(s) + k, 0) ELSE Min(k, Len(s))
    IN  SubSeq(s, from + 1, Len(s))

\* Optional[int]: None is <<>>, the integer n is <<n>>
None == <<>>

\* ADC24Driver._config before any configure(), line 127
NoConfig == [channel |-> 0, voltage_range |-> ""]
Some(n) == <<n>>

\* ------------------------------------------------------- get_buffer_data

\* lines 136-138: the trailing slice of the two copies
TailCut(times, voltages, last_n) ==
    IF last_n # None /\ last_n[1] < Len(times)
    THEN [times |-> SliceFrom(times, -last_n[1]),
          voltages |-> SliceFrom(voltages, -last_n[1])]
    ELSE [times |-> times, voltages |-> voltages]

\* get_buffer_data run without interruption on the buffer (tb, vb, idx, filled)
get_buffer_data(tb, vb, idx, filled, size, last_n) ==
    LET n == filled IN
    IF n = 0 THEN [times |-> <<>>, voltages |-> <<>>]
    ELSE IF n < size
         THEN TailCut(Head_n(tb, n), Head_n(vb, n), last_n)
         ELSE LET start == idx % size
              IN  TailCut(Rotated(tb, start, size), Rotated(vb, start, size), last_n)

\* the (time, voltage) pairs of a result of get_buffer_data
Pairs(out) == [i \in 1..Len(out.times) |-> <<out.times[i], out.voltages[i]>>]

Increasing(s) == \A i \in 1..(Len(s) - 1) : s[i] < s[i + 1]

\* the last k elements of a sequence, k >= 0
LastK(s, k) == SubSeq(s, Len(s) - Min(k, Len(s)) + 1, Len(s))

\* ------------------------------------------------------ signal_processing
\* Filtered voltages are kept exact, in units of 1/Scale microvolt: Scale is
\* the common denominator of the Savitzky-Golay coefficients for window 11,
\* order 3.

SAVGOL_WINDOW == 11
NOISE_FLOOR_UV == 5
PROMINENCE_UV == 10
Scale == 858
HalfWindow == SAVGOL_WINDOW \div 2

\* savgol_filter(signal, 11, 3), mode 'interp': row r gives Scale times the
\* value at position r of the cubic fitted by least squares to 11 samples.
\* Row 6 is the convolution kernel (-36, 9, 44, 69, 84, 89, ...)/429; rows
\* 1-5 and 7-11 give the first and the last five outputs.
SavgolRows ==
    << << 678,  288,   48,  -72, -102,  -72,  -12,   48,   78,   48,  -72 >>,
       << 288,  246,  192,  132,   72,   18,  -24,  -48,  -48,  -18,   48 >>,
       <<  48,  192,  246,  232,  172,   88,    2,  -64,  -88,  -48,   78 >>,
       << -72,  132,  232,  251,  212,  138,   52,  -23,  -64,  -48,   48 >>,
       << -102,  72,  172,  212,  206,  168,  112,   52,    2,  -24,  -12 >>,
       << -72,   18,   88,  138,  168,  178,  168,  138,   88,   18,  -72 >>,
       << -12,  -24,    2,   52,  112,  168,  206,  212,  172,   72, -102 >>,
       <<  48,  -48,  -64,  -23,   52,  138,  212,  251,  232,  132,  -72 >>,
       <<  78,  -48,  -88,  -64,    2,   88,  172,  232,  246,  192,   48 >>,
       <<  48,  -18,  -48,  -48,  -24,   18,   72,  132,  192,  246,  288 >>,
       << -72,   48,   78,   48,  -12,  -72, -102,  -72,   48,  288,  678 >> >>

\* a function on 1..n as the tuple of its values
Tuple(f) == SubSeq(f, 1, Len(f))

RECURSIVE Dot(_, _, _, _)
\* sum over j = 1..k of row[j] * x[off + j]
Dot(row, x, off, k) ==
    IF k = 0 THEN 0 ELSE row[k] * x[off + k] + Dot(row, x, off, k - 1)

\* scipy.signal.savgol_filter on a signal of at least 11 samples
savgol_filter(x) ==
    LET n == Len(x) IN
    Tuple([i \in 1..n |->
        IF i <= HalfWindow
        THEN Dot(SavgolRows[i], x, 0, SAVGOL_WINDOW)
        ELSE IF i > n - HalfWindow
        THEN Dot(SavgolRows[SAVGOL_WINDOW - (n - i)], x, n - SAVGOL_WINDOW, SAVGOL_WINDOW)
        ELSE Dot(SavgolRows[HalfWindow + 1], x, i - HalfWindow - 1, SAVGOL_WINDOW)])

\* apply_savgol_filter, lines 49-57: a short signal is returned as it is
apply_savgol_filter(signal) ==
    IF Len(signal) < SAVGOL_WINDOW
    THEN Tuple([i \in 1..Len(signal) |-> Scale * signal[i]])
    ELSE savgol_filter(signal)

Neg(x) == Tuple([i \in 1..Len(x) |-> 0 - x[i]])

\* scipy's local maxima: a sample, or the middle of a flat run of samples,
\* that is strictly above the sample before it and the sample after it; the
\* first and the last sample of the signal are never maxima
RECURSIVE RunEnd(_, _)
RunEnd(x, i) == IF i < Len(x) /\ x[i + 1] = x[i] THEN RunEnd(x, i + 1) ELSE i

LocalMaxima(x) ==
    {(l + RunEnd(x, l)) \div 2 :
        l \in {i \in 2..(Len(x) - 1) :
                 /\ x[i - 1] < x[i]
                 /\ RunEnd(x, i) < Len(x)
                 /\ x[RunEnd(x, i) + 1] < x[i]}}

\* scipy's peak_prominences with no wlen: the peak's height over the higher
\* of the two lowest points reached, on each side, before a higher sample or
\* the end of the signal
RECURSIVE LowLeft(_, _, _, _)
LowLeft(x, p, i, low) ==
    IF i >= 1 /\ x[i] <= x[p] THEN LowLeft(x, p, i - 1, Min(low, x[i])) ELSE low

RECURSIVE LowRight(_, _, _, _)
LowRight(x, p, i, low) ==
    IF i <= Len(x) /\ x[i] <= x[p] THEN LowRight(x, p, i + 1, Min(low, x[i])) ELSE low

Prominence(x, p) ==
    x[p] - Max(LowLeft(x, p, p, x[p]), LowRight(x, p, p, x[p]))

\* scipy.signal.find_peaks(x, prominence=, height=): 1-based positions
find_peaks(x, prominence, height) ==
    {p \in LocalMaxima(x) : x[p] >= height /\ Prominence(x, p) >= prominence}

\* a set of positions as an ascending sequence
RECURSIVE Ascending(_)
Ascending(S) ==
    IF S = {} THEN <<>>
    ELSE LET m == CHOOSE a \in S : \A b \in S : a <= b
         IN  <<m>> \o Ascending(S \ {m})

\* peaks_list.sort(key=lambda p: p.time): stable
RECURSIVE SortByTime(_)
SortByTime(ps) ==
    IF Len(ps) = 0 THEN <<>>
    ELSE LET k == CHOOSE i \in 1..Len(ps) :
                     /\ \A j \in 1..Len(ps) : ps[i].time <= ps[j].time
                     /\ \A j \in 1..(i - 1) : ps[j].time # ps[i].time
         IN  <<ps[k]>> \o SortByTime(SubSeq(ps, 1, k - 1) \o SubSeq(ps, k + 1, Len(ps)))

\* detect_peaks, lines 60-133.  index is the 0-based position in the window;
\* height_uv is in 1/Scale microvolt; the width of a peak is not modelled.
detect_peaks(filtered_signal, times) ==
    LET MkPeaks(idxs, polarity) ==
            [k \in 1..Len(idxs) |->
                [index |-> idxs[k] - 1, time |-> times[idxs[k]],
                 height_uv |-> filtered_signal[idxs[k]], polarity |-> polarity]]
        pos == Ascending(find_peaks(filtered_signal, PROMINENCE_UV * Scale,
                                    NOISE_FLOOR_UV * Scale))
        neg == Ascending(find_peaks(Neg(filtered_signal), PROMINENCE_UV * Scale,
                                    NOISE_FLOOR_UV * Scale))
    IN  SortByTime(MkPeaks(pos, "positive") \o MkPeaks(neg, "negative"))

\* process_window, lines 150-157: the filter, the noise gate, the peaks.
\* Statistics are exact: a quotient is kept as numerator and denominator,
\* rms_noise_uv as its square.
Abs(v) == IF v < 0 THEN 0 - v ELSE v

RECURSIVE SumOver(_, _)
\* the sum of x[i] over the positions i of S
SumOver(x, S) ==
    IF S = {} THEN 0
    ELSE LET i == CHOOSE j \in S : TRUE IN x[i] + SumOver(x, S \ {i})

\* a float: 0.0, or a quotient of two integers
Zero == [num |-> 0, den |-> 1]
Quotient(num, den) == [num |-> num, den |-> den]

\* line 154: np.where(np.abs(filtered) < NOISE_FLOOR_UV, 0.0, filtered)
NoiseGate(filtered) ==
    Tuple([i \in 1..Len(filtered) |->
             IF Abs(filtered[i]) < NOISE_FLOOR_UV * Scale THEN 0 ELSE filtered[i]])

\* np.mean over the positions S with no test that there is one: nan (0/0)
\* when there is none
Mean_Unguarded(x, S) == Quotient(SumOver(x, S), Cardinality(S))

\* lines 161-164 and 169: float(np.mean(x[S])) if np.any(S) else 0.0
Mean(x, S) ==
    IF S # {} THEN Quotient(SumOver(x, S), Cardinality(S)) ELSE Zero

\* line 166: times[-1] - times[0] if len(times) > 1 else 1.0
Duration(times) == IF Len(times) > 1 THEN times[Len(times)] - times[1] ELSE 1

\* lines 136-179
process_window(times, raw_uv) ==
    LET filtered_gated == NoiseGate(apply_savgol_filter(raw_uv))
        peaks == detect_peaks(filtered_gated, times)
        above_noise == {i \in 1..Len(raw_uv) : Abs(raw_uv[i]) > NOISE_FLOOR_UV}
        below_noise == (1..Len(raw_uv)) \ above_noise
        magnitudes == Tuple([i \in 1..Len(raw_uv) |-> Abs(raw_uv[i])])
        squares == Tuple([i \in 1..Len(raw_uv) |-> raw_uv[i] * raw_uv[i]])
        duration == Duration(times)
    IN  [times |-> times,
         raw_uv |-> raw_uv,
         filtered_uv |-> filtered_gated,
         peaks |-> peaks,
         mean_amplitude_uv |-> Mean(magnitudes, above_noise),
         spike_frequency_hz |->
             IF duration > 0 THEN Quotient(Len(peaks), duration) ELSE Zero,
         rms_noise_uv_squared |-> Mean(squares, below_noise)]

\* ------------------------------------- a caller of signal_processing
\* sp.heap holds the caller's arrays, by reference, their values in 1/Scale
\* microvolt; arg is the array passed and ret the array returned; given is
\* history: the elements of the array passed, at the call.

NoCaller == [pc |-> "idle", heap |-> <<>>, arg |-> 0, ret |-> 0, given |-> <<>>,
             times |-> <<>>, result |-> <<>>]

\* the array passed is handed back
ndarray_copy_Alias(heap, a) == [heap |-> heap, ret |-> a]

\* numpy.ndarray.copy(): a new array with the elements of array a
ndarray_copy(heap, a) == [heap |-> Append(heap, heap[a]), ret |-> Len(heap) + 1]

\* savgol_filter on values in 1/Scale microvolt, in 1/Scale microvolt
Unscaled(x) == Tuple([i \in 1..Len(x) |-> x[i] \div Scale])

\* apply_savgol_filter, lines 55-57, on array a of the heap
apply_savgol_filter_ref(heap, a) ==
    IF Len(heap[a]) < SAVGOL_WINDOW
    THEN ndarray_copy(heap, a)
    ELSE [heap |-> Append(heap, Unscaled(savgol_filter(heap[a]))),
          ret |-> Len(heap) + 1]

\* ------------------------------------------------------------ the sources

\* The voltages a source may deliver next: baseline, or, among its last
\* SpikeTail samples, a spike while any is left.
NextVoltages ==
    {0} \cup (IF spikes_left > 0 /\ source_left <= SpikeTail THEN {SpikeUv} ELSE {})

\* A source delivers Sample(timestamp = t, voltage_uv = v)
DeliverSample(th, v, pc) ==
    /\ source_left > 0
    /\ threads' = [threads EXCEPT ![th].smp = <<threads[th].t, v>>,
                                  ![th].t = threads[th].t + 1,
                                  ![th].pc = pc]
    /\ source_left' = source_left - 1
    /\ spikes_left' = IF v = 0 THEN spikes_left ELSE spikes_left - 1

\* a thread just created by threading.Thread(...).start(); sent is history:
\* whether its call of stream() has written a command to the bridge
NewThread(kind) ==
    [kind |-> kind, pc |-> IF kind = "demo" THEN "d_while" ELSE "stream",
     t |-> 0, smp |-> <<0, 0>>, idx |-> 0, sent |-> FALSE]

ThreadIds == DOMAIN threads
Alive(th) == threads[th].pc # "done"
InAddSample(th) ==
    threads[th].pc \in {"a102", "a103", "a104", "a105", "a106", "a107", "a110"}

\* what a thread step leaves alone besides AppState, the driver and the sources
othervars == <<handler, response, bc, rd, sp, published>>

\* ------------------------------------------------------------- add_sample
\* One step per statement of AppState.add_sample, in program order.  The
\* locals idx and sample are dead after line 105 and are cleared there.

\* add_sample takes a lock that a caller of get_buffer_data holds for the
\* length of its call
Unlocked_ReaderHolds(reader) == reader.pc \in {"idle", "got"}

\* lines 100-102: add_sample starts without acquiring anything; _lock of
\* line 98 is taken neither here nor in get_buffer_data, whose caller is
\* reader
Unlocked(reader) == TRUE

\* the cursor never wraps: every sample goes to the first slot
WriteSlot_First(cursor, size) == 0

\* line 102: self.buffer_idx % self.buffer_size
WriteSlot(cursor, size) == cursor % size

\* line 102: idx = self.buffer_idx % self.buffer_size
Add102(th) ==
    /\ threads[th].pc = "a102"
    /\ Unlocked(rd)
    /\ threads' = [threads EXCEPT ![th].idx = WriteSlot(buffer_idx, buffer_size),
                                  ![th].pc = "a103"]
    /\ UNCHANGED <<appvars, drvvars, source_left, spikes_left, othervars, pushed>>

\* line 103: self.times_buffer[idx] = sample.timestamp
Add103(th) ==
    /\ threads[th].pc = "a103"
    /\ times_buffer' = [times_buffer EXCEPT ![threads[th].idx] = threads[th].smp[1]]
    /\ threads' = [threads EXCEPT ![th].pc = "a104"]
    /\ UNCHANGED <<buffer_size, voltage_buffer, buffer_idx, buffer_filled,
                   sample_count, peak_count, recording, session_id, csv_file,
                   csv_writer, record_thread, ws_clients, csv_rows>>
    /\ UNCHANGED <<drvvars, source_left, spikes_left, othervars, pushed>>

\* line 104: self.voltage_buffer[idx] = sample.voltage_uv
Add104(th) ==
    /\ threads[th].pc = "a104"
    /\ voltage_buffer' = [voltage_buffer EXCEPT ![threads[th].idx] = threads[th].smp[2]]
    /\ threads' = [threads EXCEPT ![th].pc = "a105"]
    /\ UNCHANGED <<buffer_size, times_buffer, buffer_idx, buffer_filled,
                   sample_count, peak_count, recording, session_id, csv_file,
                   csv_writer, record_thread, ws_clients, csv_rows>>
    /\ UNCHANGED <<drvvars, source_left, spikes_left, othervars, pushed>>

\* line 105: self.buffer_idx += 1; the sample is now in the buffer
Add105(th) ==
    /\ threads[th].pc = "a105"
    /\ buffer_idx' = buffer_idx + 1
    /\ pushed' = Append(pushed, threads[th].smp)
    /\ threads' = [threads EXCEPT ![th].pc = "a106", ![th].idx = 0,
                                  ![th].smp = <<0, 0>>]
    /\ UNCHANGED <<buffer_size, times_buffer, voltage_buffer, buffer_filled,
                   sample_count, peak_count, recording, session_id, csv_file,
                   csv_writer, record_thread, ws_clients, csv_rows>>
    /\ UNCHANGED <<drvvars, source_left, spikes_left, othervars>>

\* line 106: self.buffer_filled = min(self.buffer_filled + 1, self.buffer_size)
Add106(th) ==
    /\ threads[th].pc = "a106"
    /\ buffer_filled' = Min(buffer_filled + 1, buffer_size)
    /\ threads' = [threads EXCEPT ![th].pc = "a107"]
    /\ UNCHANGED <<buffer_size, times_buffer, voltage_buffer, buffer_idx,
                   sample_count, peak_count, recording, session_id, csv_file,
                   csv_writer, record_thread, ws_clients, csv_rows>>
    /\ UNCHANGED <<drvvars, source_left, spikes_left, othervars, pushed>>

\* line 107: self.sample_count += 1
Add107(th) ==
    /\ threads[th].pc = "a107"
    /\ sample_count' = sample_count + 1
    /\ threads' = [threads EXCEPT ![th].pc = "a110"]
    /\ UNCHANGED <<buffer_size, times_buffer, voltage_buffer, buffer_idx,
                   buffer_filled, peak_count, recording, session_id, csv_file,
                   csv_writer, record_thread, ws_clients, csv_rows>>
    /\ UNCHANGED <<drvvars, source_left, spikes_left, othervars, pushed>>

\* Where add_sample's caller goes on: after a return, _demo_worker sleeps
\* and tests its flag, and the for loop of _recording_worker resumes the
\* generator; an exception out of add_sample ends _demo_worker, which has no
\* handler, and leaves the for loop of _recording_worker for its except
\* clause, closing the generator.
AfterAddSample(kind, written) ==
    IF written THEN (IF kind = "demo" THEN "d_while" ELSE "resume")
    ELSE (IF kind = "demo" THEN "done" ELSE "genfin")

\* A CSV file: its header rows, its data rows, and, as history, whether a
\* write to it raised.  NoFile: not created yet.
NoFile == [header |-> 0, data |-> 0, failed |-> FALSE]

\* lines 365-367 / 487-489: open(csv_path, "w") and the header row
NewFile == [header |-> 1, data |-> 0, failed |-> FALSE]

\* lines 110-119: with a writer set, writerow and flush add one row to the
\* session's CSV, or raise (OSError) and add none
CsvWrite(th, ok) ==
    /\ ok \/ csv_writer # 0
    /\ csv_rows' = IF csv_writer = 0 THEN csv_rows
                   ELSE IF ok
                   THEN [csv_rows EXCEPT ![csv_writer].data = csv_rows[csv_writer].data + 1]
                   ELSE [csv_rows EXCEPT ![csv_writer].failed = TRUE]
    /\ threads' = [threads EXCEPT
                     ![th].pc = AfterAddSample(threads[th].kind, ok),
                     ![th].idx = 0, ![th].smp = <<0, 0>>]

\* lines 110-119, then add_sample returns or raises
Add110(th) ==
    /\ threads[th].pc = "a110"
    /\ \E ok \in BOOLEAN : CsvWrite(th, ok)
    /\ UNCHANGED <<buffer_size, times_buffer, voltage_buffer, buffer_idx,
                   buffer_filled, sample_count, peak_count, recording, session_id,
                   csv_file, csv_writer, record_thread, ws_clients>>
    /\ UNCHANGED <<drvvars, source_left, spikes_left, othervars, pushed>>

add_sample(th) ==
    \/ Add102(th) \/ Add103(th) \/ Add104(th) \/ Add105(th)
    \/ Add106(th) \/ Add107(th) \/ Add110(th)

\* lines 102-119 run with no other thread in between
add_sample_whole(th) ==
    /\ threads[th].pc = "a102"
    /\ Unlocked(rd)
    /\ LET idx == WriteSlot(buffer_idx, buffer_size)
       IN  /\ times_buffer' = [times_buffer EXCEPT ![idx] = threads[th].smp[1]]
           /\ voltage_buffer' = [voltage_buffer EXCEPT ![idx] = threads[th].smp[2]]
    /\ buffer_idx' = buffer_idx + 1
    /\ pushed' = Append(pushed, threads[th].smp)
    /\ buffer_filled' = Min(buffer_filled + 1, buffer_size)
    /\ sample_count' = sample_count + 1
    /\ \E ok \in BOOLEAN : CsvWrite(th, ok)
    /\ UNCHANGED <<buffer_size, peak_count, recording, session_id, csv_file,
                   csv_writer, record_thread, ws_clients>>
    /\ UNCHANGED <<drvvars, source_left, spikes_left, othervars>>


\* ----------------------------------------------------------- _demo_worker

\* lines 499-523: while state.recording: build the next synthetic sample and
\* call add_sample; the thread returns when the flag is down
DemoWhile(th) ==
    /\ threads[th].pc = "d_while"
    /\ IF ~recording
       THEN /\ threads' = [threads EXCEPT ![th].pc = "done"]
            /\ UNCHANGED <<source_left, spikes_left>>
       ELSE \E v \in NextVoltages : DeliverSample(th, v, "a102")
    /\ UNCHANGED <<appvars, drvvars, othervars, pushed>>

\* ------------------------------------------------- ADC24Driver.stream
\* The generator runs on the thread that iterates it (_recording_worker).

\* no test before the commands
StreamReady_NoCheck(is_connected, stored) == TRUE

\* lines 250-251: not (not self._connected or not self._config)
StreamReady(is_connected, stored) == is_connected /\ stored # NoConfig

\* lines 250-276: the precondition, the set_interval and run commands (the
\* bridge answers ok or not), then _streaming = True and _stop_event.clear()
StreamBegin(th) ==
    /\ threads[th].pc = "stream"
    /\ IF ~StreamReady(connected, config)
       THEN /\ threads' = [threads EXCEPT ![th].pc = "fin"]
            /\ UNCHANGED <<streaming, stop_event>>
       ELSE \E bridge_ok \in BOOLEAN :
               IF bridge_ok
               THEN /\ streaming' = TRUE
                    /\ stop_event' = FALSE
                    /\ threads' = [threads EXCEPT ![th].pc = "loop",
                                                  ![th].sent = TRUE]
               ELSE /\ threads' = [threads EXCEPT ![th].pc = "fin",
                                                  ![th].sent = TRUE]
                    /\ UNCHANGED <<streaming, stop_event>>
    /\ UNCHANGED <<connected, config, appvars, source_left, spikes_left,
                   othervars, pushed>>

\* Where stream() goes on after the bridge's answer to a poll (lines
\* 283-295, _send_cmd lines 138-151): with no data in it (not ready, an error
\* reply, nothing returned) it sleeps and polls again; a line that is not
\* JSON makes json.loads raise, with the bridge still up for the finally
\* clause; a bridge that is gone makes _send_cmd raise, in the finally clause
\* too, so line 317 is skipped.
AfterPoll(answer) ==
    IF answer = "no data" THEN "sleep"
    ELSE IF answer = "garbled" THEN "genfin"
    ELSE "fin"

\* lines 281-311: the loop test, then one poll of the bridge: values to
\* yield, or another answer
StreamLoop(th) ==
    /\ threads[th].pc = "loop"
    /\ IF stop_event
       THEN /\ threads' = [threads EXCEPT ![th].pc = "genfin"]
            /\ UNCHANGED <<source_left, spikes_left>>
       ELSE \/ \E v \in NextVoltages : DeliverSample(th, v, "check")
            \/ \E answer \in {"no data", "garbled", "gone"} :
                  /\ threads' = [threads EXCEPT ![th].pc = AfterPoll(answer)]
                  /\ UNCHANGED <<source_left, spikes_left>>
    /\ UNCHANGED <<appvars, drvvars, othervars, pushed>>

\* lines 285, 294, 313: time.sleep ends
StreamWake(th) ==
    /\ threads[th].pc = "sleep"
    /\ threads' = [threads EXCEPT ![th].pc = "loop"]
    /\ UNCHANGED <<appvars, drvvars, source_left, spikes_left, othervars, pushed>>

\* lines 297-313: resumed after a yield: the next value of the batch, or the
\* batch is done (sleep, then test the stop event again)
StreamResume(th) ==
    /\ threads[th].pc = "resume"
    /\ \/ \E v \in NextVoltages : DeliverSample(th, v, "check")
       \/ /\ threads' = [threads EXCEPT ![th].pc = "sleep"]
          /\ UNCHANGED <<source_left, spikes_left>>
    /\ UNCHANGED <<appvars, drvvars, othervars, pushed>>

\* lines 315-318: the finally clause, run when the loop ends or the generator
\* is closed: the stop command is answered (then _streaming = False) or not
StreamFinally(th) ==
    /\ threads[th].pc = "genfin"
    /\ \E bridge_ok \in BOOLEAN :
          streaming' = IF bridge_ok THEN FALSE ELSE streaming
    /\ threads' = [threads EXCEPT ![th].pc = "fin"]
    /\ UNCHANGED <<connected, stop_event, config, appvars, source_left,
                   spikes_left, othervars, pushed>>

\* ADC24Driver.stop: self._stop_event.set()
driver_stop == stop_event' = TRUE

\* ------------------------------------------------------ _recording_worker

\* lines 152-155: a batch arrived: leave the loop when the flag is down (the
\* generator is closed), else add its sample
WorkerCheck(th) ==
    /\ threads[th].pc = "check"
    /\ threads' = [threads EXCEPT ![th].pc = IF ~recording THEN "genfin" ELSE "a102"]
    /\ UNCHANGED <<appvars, drvvars, source_left, spikes_left, othervars, pushed>>

\* lines 156-160: except / finally: state.recording = False
WorkerFinally(th) ==
    /\ threads[th].pc = "fin"
    /\ recording' = FALSE
    /\ threads' = [threads EXCEPT ![th].pc = "done"]
    /\ UNCHANGED <<buffer_size, times_buffer, voltage_buffer, buffer_idx,
                   buffer_filled, sample_count, peak_count, session_id, csv_file,
                   csv_writer, record_thread, ws_clients, csv_rows>>
    /\ UNCHANGED <<drvvars, source_left, spikes_left, othervars, pushed>>

ThreadStep(th) ==
    \/ DemoWhile(th)
    \/ StreamBegin(th) \/ StreamLoop(th) \/ StreamWake(th) \/ StreamResume(th)
    \/ StreamFinally(th)
    \/ WorkerCheck(th) \/ WorkerFinally(th)
    \/ add_sample(th)


\* published is history of the session's payloads: the timestamp the next raw
\* slice has to start with for the slices to be contiguous (timestamps are
\* sample ordinals; 0 once they were not), whether they all were so far, the
\* timestamps listed as peaks in one payload and in more than one, whether a
\* tick of the session took the idle branch, and the lengths of the peaks
\* lists of the payloads, added up.
NothingPublished ==
    [raw_next |-> 0, contiguous |-> TRUE, peaks_once |-> {}, peaks_twice |-> {},
     idle |-> FALSE, peaks_listed |-> 0]

\* ------------------------------------------------------------ the handlers
\* The REST handlers run on the event loop, one at a time; none awaits, so
\* each runs to its end before another starts.  stop_recording blocks the
\* loop in join(), during which the recording threads keep running.

\* the event loop is free for a handler: no handler is running and the
\* broadcaster awaits its sleep or a send_text
LoopFree == handler = "idle" /\ bc.pc \in {"sleep", "send"}

Reply(op, status) == [op |-> op, status |-> status, sample_count |-> sample_count]

\* lines 356-372 / 478-491 and 527-528: the new session, its CSV with the
\* header row, the flag, and the thread
OpenSession(kind) ==
    LET sid == Len(threads) + 1 IN
    /\ session_id' = sid
    /\ sample_count' = 0
    /\ peak_count' = 0
    /\ buffer_idx' = 0
    /\ buffer_filled' = 0
    /\ csv_file' = sid
    /\ csv_writer' = sid
    /\ csv_rows' = [csv_rows EXCEPT ![sid] = NewFile]
    /\ recording' = TRUE
    /\ record_thread' = sid
    /\ threads' = Append(threads, NewThread(kind))
    /\ pushed' = <<>>
    /\ published' = NothingPublished
    /\ UNCHANGED <<buffer_size, times_buffer, voltage_buffer, ws_clients>>

\* the guard left out
AlreadyRecording_NoGuard == FALSE

\* lines 317-318 / 472-473
AlreadyRecording == recording

\* a handler that raises HTTPException before touching anything
Reject(op, status) ==
    /\ response' = Reply(op, status)
    /\ UNCHANGED <<appvars, drvvars, threads, pushed, published>>

\* ChannelConfig.channel: channel number (1-16)
MaxChannel == 16

\* channel numbers a request may carry: one the logger has, one it has not
Channels == {1, MaxChannel + 1}

\* the keys of range_map, lines 321-329
RangeNames == {"39", "78", "156", "312", "625", "1250", "2500"}

\* voltage_range strings a request may carry
Ranges == {"39", "bogus"}

\* line 330: range_map.get(voltage_range, VoltageRange.MV_39)
range_map_get(voltage_range) ==
    IF voltage_range \in RangeNames THEN voltage_range ELSE "39"

\* lines 332-339: the RecordingConfig built from the request
RecordingConfig(channel, voltage_range) ==
    [channel |-> channel, voltage_range |-> range_map_get(voltage_range)]

\* ADC24Driver.configure, lines 212-234: set_mains and set_channel succeed
\* when the bridge answers ok; the logger refuses a channel it does not have
Configured(channel, bridge_ok) == bridge_ok /\ channel \in 1..MaxChannel

\* ---------------------------------------- the driver, called directly
\* connect, configure and disconnect as their caller sees them; response is
\* what the call returned or raised.

driverframe == <<appvars, threads, source_left, spikes_left, handler, bc, rd, sp,
                 pushed, published>>

\* ADC24Driver.connect, lines 153-202: a connected driver returns at once;
\* else the bridge starts and opens the device, or the call raises
driver_connect(bridge_ok) ==
    /\ IF connected
       THEN /\ response' = Reply("connect", "returned")
            /\ UNCHANGED drvvars
       ELSE IF bridge_ok
       THEN /\ connected' = TRUE
            /\ response' = Reply("connect", "returned")
            /\ UNCHANGED <<streaming, stop_event, config>>
       ELSE /\ response' = Reply("connect", "raised")
            /\ UNCHANGED drvvars
    /\ UNCHANGED driverframe

\* ADC24Driver.configure, lines 204-238: raises when not connected; else
\* stores the configuration, then sends it to the bridge
driver_configure(channel, voltage_range, bridge_ok) ==
    /\ IF ~connected
       THEN /\ response' = Reply("configure", "Not connected")
            /\ UNCHANGED drvvars
       ELSE /\ config' = RecordingConfig(channel, voltage_range)
            /\ response' = Reply("configure",
                                 IF Configured(channel, bridge_ok) THEN "returned"
                                 ELSE "raised")
            /\ UNCHANGED <<connected, streaming, stop_event>>
    /\ UNCHANGED driverframe

\* ADC24Driver.disconnect, lines 350-370: returns at once when not connected;
\* else stops a stream, closes the device and ends the bridge
driver_disconnect ==
    /\ IF ~connected
       THEN UNCHANGED drvvars
       ELSE /\ connected' = FALSE
            /\ stop_event' = (stop_event \/ streaming)
            /\ UNCHANGED <<streaming, config>>
    /\ response' = Reply("disconnect", "returned")
    /\ UNCHANGED driverframe

\* POST /api/start, lines 309-378.  channel, voltage_range: the request;
\* connect_ok, configure_ok: whether the bridge lets connect() and
\* configure() succeed.
start_recording(channel, voltage_range, connect_ok, configure_ok) ==
    /\ LoopFree
    /\ IF AlreadyRecording
       THEN Reject("start", "Already recording")
       ELSE IF ~connected /\ ~connect_ok
       THEN Reject("start", "Connection failed")
       ELSE IF ~Configured(channel, configure_ok)
       THEN \* configure() stored the config (line 209), then raised
            /\ connected' = TRUE
            /\ config' = RecordingConfig(channel, voltage_range)
            /\ response' = Reply("start", "Internal Server Error")
            /\ UNCHANGED <<appvars, streaming, stop_event, threads, pushed, published>>
       ELSE /\ Len(threads) < Len(csv_rows)
            /\ connected' = TRUE
            /\ config' = RecordingConfig(channel, voltage_range)
            /\ OpenSession("worker")
            /\ response' = [op |-> "start", status |-> "recording", sample_count |-> 0]
            /\ UNCHANGED <<streaming, stop_event>>
    /\ UNCHANGED <<handler, source_left, spikes_left, bc, rd, sp>>

\* POST /api/demo/start, lines 469-534
start_demo ==
    /\ LoopFree
    /\ IF AlreadyRecording
       THEN Reject("start_demo", "Already recording")
       ELSE /\ Len(threads) < Len(csv_rows)
            /\ OpenSession("demo")
            /\ response' = [op |-> "start_demo", status |-> "demo_recording",
                            sample_count |-> 0]
            /\ UNCHANGED drvvars
    /\ UNCHANGED <<handler, source_left, spikes_left, bc, rd, sp>>

\* the guard left out
NotRecording_NoGuard == FALSE

\* lines 384-385
NotRecording == ~recording

\* POST /api/stop, lines 382-392: the guard, the flag, driver.stop(), and the
\* handler enters join(timeout=5.0)
stop_recording ==
    /\ LoopFree
    /\ IF NotRecording
       THEN /\ Reject("stop", "Not recording")
            /\ UNCHANGED handler
       ELSE /\ recording' = FALSE
            /\ driver_stop
            /\ handler' = "join"
            /\ UNCHANGED <<buffer_size, times_buffer, voltage_buffer, buffer_idx,
                           buffer_filled, sample_count, peak_count, session_id,
                           csv_file, csv_writer, record_thread, ws_clients, csv_rows>>
            /\ UNCHANGED <<connected, streaming, config, threads, response,
                           pushed, published>>
    /\ UNCHANGED <<source_left, spikes_left, bc, rd, sp>>

\* Where a thread can stay for five seconds: waiting for an answer of the
\* bridge (_send_cmd reads its stdout with no timeout) or polling it.
WaitsOnBridge(th) == threads[th].pc \in {"stream", "loop", "sleep", "genfin"}

\* join(timeout=5.0) returns: the thread has ended, or the five seconds are
\* up while the thread is still waiting on the bridge
JoinReturns(timed_out) ==
    \/ record_thread = 0
    \/ ~Alive(record_thread)
    \/ timed_out /\ WaitsOnBridge(record_thread)

\* lines 392-410: join returns, the thread reference is dropped, the CSV is
\* closed, and the response is built from the counters as they are now
stop_join ==
    /\ handler = "join"
    /\ \E timed_out \in BOOLEAN : JoinReturns(timed_out)
    /\ record_thread' = 0
    /\ csv_file' = 0
    /\ csv_writer' = 0
    /\ response' = Reply("stop", "stopped")
    /\ handler' = "idle"
    /\ UNCHANGED <<buffer_size, times_buffer, voltage_buffer, buffer_idx,
                   buffer_filled, sample_count, peak_count, recording, session_id,
                   ws_clients, csv_rows>>
    /\ UNCHANGED <<drvvars, threads, source_left, spikes_left, bc, rd, sp, pushed,
                   published>>

\* ------------------------------------------- callers of get_buffer_data
\* rd: a caller's position in get_buffer_data and its locals.  seen is
\* history: the samples pushed when the call began.

IdleReader == [pc |-> "idle", last_n |-> None, n |-> 0, start |-> 0,
               times |-> <<>>, out |-> [times |-> <<>>, voltages |-> <<>>],
               seen |-> <<>>]

readerframe == <<appvars, drvvars, threads, source_left, spikes_left, handler,
                 response, bc, sp, pushed, published>>

\* the whole call, made while no add_sample is in progress
ReadAtRest(last_n) ==
    /\ handler = "idle"
    /\ \A th \in ThreadIds : ~InAddSample(th)
    /\ rd' = [IdleReader EXCEPT
                !.pc = "got", !.last_n = last_n, !.seen = pushed,
                !.out = get_buffer_data(times_buffer, voltage_buffer, buffer_idx,
                                        buffer_filled, buffer_size, last_n)]
    /\ UNCHANGED readerframe

\* lines 123-127: n = self.buffer_filled, and the branch taken on it
EnterGetBufferData(last_n) ==
    [IdleReader EXCEPT
        !.last_n = last_n, !.n = buffer_filled, !.seen = pushed,
        !.pc = IF buffer_filled = 0 THEN "got"
               ELSE IF buffer_filled < buffer_size THEN "times" ELSE "start"]

\* a call by a thread of its own
ReadFilled(last_n) ==
    /\ rd.pc \in {"idle", "got"}
    /\ rd' = EnterGetBufferData(last_n)
    /\ UNCHANGED readerframe

\* line 131: start = self.buffer_idx % self.buffer_size
ReadStart ==
    /\ rd.pc = "start"
    /\ rd' = [rd EXCEPT !.start = buffer_idx % buffer_size, !.pc = "times"]
    /\ UNCHANGED readerframe

\* line 128 / 133: the copy of the time slots
ReadTimes ==
    /\ rd.pc = "times"
    /\ rd' = [rd EXCEPT
                !.times = IF rd.n < buffer_size
                          THEN Head_n(times_buffer, rd.n)
                          ELSE Rotated(times_buffer, rd.start, buffer_size),
                !.pc = "voltages"]
    /\ UNCHANGED readerframe

\* line 129 / 134: the copy of the voltage slots; lines 136-138: the result
ReadVoltages ==
    /\ rd.pc = "voltages"
    /\ LET voltages == IF rd.n < buffer_size
                       THEN Head_n(voltage_buffer, rd.n)
                       ELSE Rotated(voltage_buffer, rd.start, buffer_size)
       IN  rd' = [rd EXCEPT !.out = TailCut(rd.times, voltages, rd.last_n),
                            !.times = <<>>, !.n = 0, !.start = 0,
                            !.pc = "got"]
    /\ UNCHANGED readerframe

\* --------------------------------------------------------- the sinks

Sinks == 1..MaxSinks

\* websocket_stream, lines 448-449: a client connects
ws_connect(ws) ==
    /\ LoopFree
    /\ ws \notin ws_clients
    /\ bc.pc = "send" => ws \notin bc.copy
    /\ ws_clients' = ws_clients \cup {ws}
    /\ UNCHANGED <<buffer_size, times_buffer, voltage_buffer, buffer_idx,
                   buffer_filled, sample_count, peak_count, recording, session_id,
                   csv_file, csv_writer, record_thread, csv_rows>>
    /\ UNCHANGED <<drvvars, threads, source_left, spikes_left, handler, response,
                   bc, rd, sp, pushed, published>>

\* websocket_stream, lines 458-461: the client went away
ws_disconnect(ws) ==
    /\ LoopFree
    /\ ws \in ws_clients
    /\ ws_clients' = ws_clients \ {ws}
    /\ UNCHANGED <<buffer_size, times_buffer, voltage_buffer, buffer_idx,
                   buffer_filled, sample_count, peak_count, recording, session_id,
                   csv_file, csv_writer, record_thread, csv_rows>>
    /\ UNCHANGED <<drvvars, threads, source_left, spikes_left, handler, response,
                   bc, rd, sp, pushed, published>>

\* -------------------------------------------------------- _broadcast_loop
\* The loop runs on the event loop and awaits only in sleep and in send_text;
\* the recording threads run between any two of its statements.  Its two
\* calls of get_buffer_data run in the frame rd.

Elems(s) == {s[i] : i \in 1..Len(s)}

RECURSIVE SelectPeaks(_, _)
\* [p for p in detected if p.time >= min_t]
SelectPeaks(detected, min_t) ==
    IF Len(detected) = 0 THEN <<>>
    ELSE (IF Head(detected).time >= min_t THEN <<Head(detected)>> ELSE <<>>)
         \o SelectPeaks(Tail(detected), min_t)

\* lines 199-204: the detected peaks that fall in the new slice
NewPeaks(detected, times) ==
    SelectPeaks(detected, IF Len(times) > 0 THEN times[1] ELSE 0)

bcframe == <<buffer_size, times_buffer, voltage_buffer, buffer_idx, buffer_filled,
             sample_count, recording, session_id, csv_file, csv_writer,
             record_thread, csv_rows, drvvars, threads, source_left, spikes_left,
             handler, response, sp, pushed>>

\* lines 171-175: the sleep ends; with no session or no sink the watermark
\* moves to the cursor and nothing is sent
BcWake ==
    /\ handler = "idle"
    /\ bc.pc = "sleep"
    /\ IF ~recording \/ ws_clients = {}
       THEN /\ bc' = [bc EXCEPT !.last_idx = buffer_idx]
            /\ published' = [published EXCEPT !.idle = TRUE]
       ELSE /\ bc' = [bc EXCEPT !.pc = "t177"]
            /\ UNCHANGED published
    /\ UNCHANGED <<bcframe, peak_count, ws_clients, rd>>

\* lines 177-182: the cursor is read; with nothing new the tick ends
Bc177 ==
    /\ bc.pc = "t177"
    /\ bc' = IF buffer_idx = bc.last_idx
             THEN [bc EXCEPT !.pc = "sleep"]
             ELSE [bc EXCEPT !.current_idx = buffer_idx,
                             !.new_count = Min(buffer_idx - bc.last_idx, CapPerTick),
                             !.pc = "t183"]
    /\ UNCHANGED <<bcframe, peak_count, ws_clients, rd, published>>

\* line 183: get_buffer_data(last_n=new_count) is entered
Bc183 ==
    /\ bc.pc = "t183"
    /\ rd' = EnterGetBufferData(Some(bc.new_count))
    /\ bc' = [bc EXCEPT !.pc = "t183r"]
    /\ UNCHANGED <<bcframe, peak_count, ws_clients, published>>

\* lines 183-187: the call returned; the watermark moves to the cursor read
\* at line 177; an empty slice ends the tick
Bc184 ==
    /\ bc.pc = "t183r"
    /\ rd.pc = "got"
    /\ bc' = [bc EXCEPT !.times = rd.out.times, !.voltages = rd.out.voltages,
                        !.last_idx = bc.current_idx, !.current_idx = 0,
                        !.new_count = 0,
                        !.pc = IF Len(rd.out.times) = 0 THEN "sleep" ELSE "t190"]
    /\ rd' = IdleReader
    /\ UNCHANGED <<bcframe, peak_count, ws_clients, published>>

\* line 190: get_buffer_data(last_n=110) is entered
Bc190 ==
    /\ bc.pc = "t190"
    /\ rd' = EnterGetBufferData(Some(FilterWindow))
    /\ bc' = [bc EXCEPT !.pc = "t190r"]
    /\ UNCHANGED <<bcframe, peak_count, ws_clients, published>>

\* lines 194-216, a window of at least 11 samples: the peaks detected in the
\* filtered window that fall in the new slice, and the tail of the filtered
\* window
FilteredPayload(times, voltages, window_times, filtered_full) ==
    [times |-> times,
     raw_uv |-> voltages,
     filtered_uv |-> IF Len(filtered_full) >= Len(times)
                     THEN SliceFrom(filtered_full, 0 - Len(times))
                     ELSE filtered_full,
     peaks |-> NewPeaks(detect_peaks(filtered_full, window_times), times)]

\* lines 190-216: the payload built from the slice and the window
Payload(times, voltages, window) ==
    IF Len(window.voltages) >= SAVGOL_WINDOW
    THEN FilteredPayload(times, voltages, window.times,
                         apply_savgol_filter(window.voltages))
    ELSE [times |-> times,
          raw_uv |-> voltages,
          filtered_uv |-> Tuple([i \in 1..Len(voltages) |-> Scale * voltages[i]]),
          peaks |-> <<>>]

\* the counter is set to the length of the list
Counted_Assigned(count, peaks) == Len(peaks)

\* line 205: state.peak_count += len(peaks); a list left empty adds nothing
Counted(count, peaks) == count + Len(peaks)

\* what one more payload adds to the history
Published(payload, ps) ==
    LET joined == /\ published.contiguous
                  /\ Increasing(payload.times)
                  /\ Elems(payload.times) =
                         published.raw_next ..
                             (published.raw_next + Len(payload.times) - 1)
    IN  [published EXCEPT
            !.contiguous = joined,
            !.raw_next = IF joined THEN payload.times[Len(payload.times)] + 1 ELSE 0,
            !.peaks_twice = published.peaks_twice \cup (published.peaks_once \cap ps),
            !.peaks_once = published.peaks_once \cup ps,
            !.peaks_listed = published.peaks_listed + Len(payload.peaks)]

\* lines 199-232: the peaks are counted and the message is sent to every
\* sink; the sinks whose send fails are dropped; the tick ends
Send(payload) ==
    /\ peak_count' = Counted(peak_count, payload.peaks)
    /\ published' = Published(payload,
                              {payload.peaks[i].time : i \in 1..Len(payload.peaks)})
    /\ \E failed \in SUBSET ws_clients : ws_clients' = ws_clients \ failed
    /\ bc' = [bc EXCEPT !.times = <<>>, !.voltages = <<>>, !.pc = "sleep"]
    /\ rd' = IdleReader
    /\ UNCHANGED bcframe

\* lines 194-232 on the window returned by the call of line 190
Publish(window) == Send(Payload(bc.times, bc.voltages, window))

\* lines 190-232: the window call returned
BcPublish ==
    /\ bc.pc = "t190r"
    /\ rd.pc = "got"
    /\ Publish(rd.out)

\* The sends of lines 226-232, one await at a time.  copy is
\* state.ws_clients.copy(), todo the sinks of it the for loop has yet to
\* reach, disconnected the local set; sent is history: the sinks of this tick
\* whose send_text returned.

\* lines 199-227: the peaks are counted, the message is built, and the for
\* loop begins on a copy of the sinks
SendBegin(payload) ==
    /\ peak_count' = Counted(peak_count, payload.peaks)
    /\ published' = Published(payload,
                              {payload.peaks[i].time : i \in 1..Len(payload.peaks)})
    /\ bc' = [bc EXCEPT !.times = <<>>, !.voltages = <<>>, !.pc = "send",
                        !.copy = ws_clients, !.todo = ws_clients,
                        !.sent = {}, !.disconnected = {}]
    /\ rd' = IdleReader
    /\ UNCHANGED <<bcframe, ws_clients>>

\* lines 228-231: await ws.send_text(message) returns, or raises and the
\* sink is noted
SendText(ws, ok) ==
    /\ handler = "idle"
    /\ bc.pc = "send"
    /\ ws \in bc.todo
    /\ bc' = [bc EXCEPT !.todo = bc.todo \ {ws},
                        !.sent = IF ok THEN bc.sent \cup {ws} ELSE bc.sent,
                        !.disconnected = IF ok THEN bc.disconnected
                                         ELSE bc.disconnected \cup {ws}]
    /\ UNCHANGED <<bcframe, peak_count, ws_clients, rd, published>>

\* every sink goes
Remaining_None(clients, disconnected) == clients \ clients

\* line 232: state.ws_clients -= disconnected
Remaining(clients, disconnected) == clients \ disconnected

\* line 232, after the last sink of the copy; the tick ends
SendEnd ==
    /\ handler = "idle"
    /\ bc.pc = "send"
    /\ bc.todo = {}
    /\ ws_clients' = Remaining(ws_clients, bc.disconnected)
    /\ bc' = [bc EXCEPT !.pc = "sleep"]
    /\ UNCHANGED <<bcframe, peak_count, rd, published>>

\* lines 190-227 with no other thread inside the call of get_buffer_data
Bc190_send ==
    /\ bc.pc = "t190"
    /\ SendBegin(Payload(bc.times, bc.voltages,
                         get_buffer_data(times_buffer, voltage_buffer, buffer_idx,
                                         buffer_filled, buffer_size,
                                         Some(FilterWindow))))

\* lines 183-187 with no other thread inside the call of get_buffer_data
Bc183_whole ==
    /\ bc.pc = "t183"
    /\ LET out == get_buffer_data(times_buffer, voltage_buffer, buffer_idx,
                                  buffer_filled, buffer_size, Some(bc.new_count))
       IN  bc' = [bc EXCEPT !.times = out.times, !.voltages = out.voltages,
                            !.last_idx = bc.current_idx, !.current_idx = 0,
                            !.new_count = 0,
                            !.pc = IF Len(out.times) = 0 THEN "sleep" ELSE "t190"]
    /\ UNCHANGED <<bcframe, peak_count, ws_clients, rd, published>>

\* lines 190-232 with no other thread inside the call of get_buffer_data
Bc190_whole ==
    /\ bc.pc = "t190"
    /\ Publish(get_buffer_data(times_buffer, voltage_buffer, buffer_idx,
                               buffer_filled, buffer_size, Some(FilterWindow)))

\* ------------------------------------------------------------------- Init

\* AppState.__init__ and ADC24Driver.__init__, with a capacity of size slots
\* and room for the CSV files of so many sessions
InitSessions(size, sessions) ==
    /\ buffer_size = size
    /\ times_buffer = Zeros(size)
    /\ voltage_buffer = Zeros(size)
    /\ buffer_idx = 0
    /\ buffer_filled = 0
    /\ sample_count = 0
    /\ peak_count = 0
    /\ recording = FALSE
    /\ session_id = 0
    /\ csv_file = 0
    /\ csv_writer = 0
    /\ record_thread = 0
    /\ ws_clients = {}
    /\ csv_rows = [s \in 1..sessions |-> NoFile]
    /\ connected = FALSE
    /\ streaming = FALSE
    /\ stop_event = FALSE
    /\ config = NoConfig
    /\ threads = <<>>
    /\ handler = "idle"
    /\ response = [op |-> "none", status |-> "none", sample_count |-> 0]
    /\ bc = [pc |-> "sleep", last_idx |-> 0, current_idx |-> 0, new_count |-> 0,
             times |-> <<>>, voltages |-> <<>>,
             copy |-> {}, todo |-> {}, sent |-> {}, disconnected |-> {}]
    /\ rd = IdleReader
    /\ sp = NoCaller
    /\ pushed = <<>>
    /\ published = NothingPublished

InitApp(size) == InitSessions(size, MaxThreads)

\* -------------------------------------------- the recorder and its threads

\* The lifecycle runs on a buffer of MaxCap slots fed baseline samples.
Init ==
    /\ InitApp(MaxCap)
    /\ source_left = MaxSamples
    /\ spikes_left = 0

Next ==
    \/ \E channel \in Channels, voltage_range \in Ranges, connect_ok, configure_ok \in BOOLEAN :
          start_recording(channel, voltage_range, connect_ok, configure_ok)
    \/ start_demo
    \/ stop_recording
    \/ stop_join
    \/ \E th \in ThreadIds : DemoWhile(th)
    \/ \E th \in ThreadIds : StreamBegin(th)
    \/ \E th \in ThreadIds : StreamLoop(th)
    \/ \E th \in ThreadIds : StreamWake(th)
    \/ \E th \in ThreadIds : StreamResume(th)
    \/ \E th \in ThreadIds : StreamFinally(th)
    \/ \E th \in ThreadIds : WorkerCheck(th)
    \/ \E th \in ThreadIds : WorkerFinally(th)
    \/ \E th \in ThreadIds : add_sample(th)

Spec == Init /\ [][Next]_vars


\* Thread scheduling is fair: a thread that can take a step eventually takes
\* one, and join() returns within its timeout.  Nothing obliges the bridge to
\* deliver a sample.
FairSpec ==
    /\ Spec
    /\ \A th \in 1..MaxThreads : WF_vars(th \in ThreadIds /\ ThreadStep(th))
    /\ WF_vars(stop_join)

\* --------------------------------------------------------------- lifecycle

StartCall ==
    \/ \E channel \in Channels, voltage_range \in Ranges, connect_ok, configure_ok \in BOOLEAN :
          start_recording(channel, voltage_range, connect_ok, configure_ok)
    \/ start_demo

\* the counters, the cursor and the slots of the ring buffer
ringvars == <<times_buffer, voltage_buffer, buffer_idx, buffer_filled, sample_count>>

\* C4: a start (start_recording or start_demo) issued while recording is
\* answered 'Already recording' and leaves the counters, the session id, the
\* cursor, the buffer, the CSV handle and the threads as they were.
C4_StartWhileRecordingRejected ==
    [][(recording /\ StartCall) =>
          /\ response'.status = "Already recording"
          /\ UNCHANGED <<appvars, drvvars, threads, pushed>>]_vars

\* a start was rejected during a session that already holds samples
C4_Witness ==
    /\ response.status = "Already recording"
    /\ recording
    /\ sample_count > 0
    /\ record_thread # 0

\* C5: a stop issued while not recording is answered 'Not recording' and
\* leaves the counters, the buffer, the CSV handle, the driver's stop event
\* and the thread reference as they were.
C5_StopWhileIdleRejected ==
    [][(~recording /\ stop_recording) =>
          /\ response'.status = "Not recording"
          /\ UNCHANGED <<appvars, drvvars, threads, pushed, handler>>]_vars

\* a stop was rejected after the producer of a session ended on its own,
\* with the session's CSV still open
C5_Witness ==
    /\ response.status = "Not recording"
    /\ ~recording
    /\ session_id # 0
    /\ csv_file # 0
    /\ \A th \in ThreadIds : ~Alive(th)

\* a recording thread that is still inside its producer loop
InProducerLoop(th) ==
    threads[th].pc \in {"d_while", "stream", "loop", "sleep", "resume", "check"}
    \/ InAddSample(th)

\* C6: at most one producer loop is alive at any time.
C6_SingleProducer ==
    Cardinality({th \in ThreadIds : InProducerLoop(th)}) <= 1

\* C7: once a stop was accepted (the handler is in join, flag down, stop event
\* set), the thread it stops eventually ends.
C7_StopObserved ==
    \A th \in 1..MaxThreads :
        (handler = "join" /\ record_thread = th) ~> (th \in ThreadIds /\ ~Alive(th))

\* C8: from the 'stopped' response until the next accepted start, the flag is
\* down, nothing is appended to the ring buffer, and the sample_count of the
\* response is the sample_count of the state.
C8_StopAwaitsProducer ==
    [][(response.status = "stopped" /\ response'.status = "stopped") =>
          /\ ~recording'
          /\ UNCHANGED ringvars
          /\ response'.sample_count = sample_count']_vars


\* ---------------------------------------------- the ring buffer, in sequence
\* One demo session after another; get_buffer_data is called only between two
\* add_sample calls.

LastNs == {None} \cup {Some(k) : k \in 0..MaxLastN}

RingInit ==
    /\ \E size \in 1..MaxCap : InitApp(size)
    /\ source_left = MaxSamples + 1
    /\ spikes_left = MaxSpikes

RingNext ==
    \/ start_demo
    \/ stop_recording
    \/ stop_join
    \/ \E th \in ThreadIds : DemoWhile(th)
    \/ \E th \in ThreadIds : add_sample(th)
    \/ \E last_n \in LastNs : ReadAtRest(last_n)

RingSpec == RingInit /\ [][RingNext]_vars

\* C1: a call with no argument, made after N add_sample calls of the session,
\* returns the last min(N, buffer_size) samples pushed, oldest first.
C1_SnapshotIsLastPushed ==
    (rd.pc = "got" /\ rd.last_n = None) =>
        Pairs(rd.out) = LastK(rd.seen, Min(Len(rd.seen), buffer_size))

\* a full snapshot taken after the buffer wrapped, holding a spike
C1_Witness ==
    /\ rd.pc = "got"
    /\ rd.last_n = None
    /\ Len(rd.seen) > buffer_size
    /\ buffer_size > 1
    /\ Len(rd.out.times) = buffer_size
    /\ \E i \in 1..Len(rd.out.voltages) : rd.out.voltages[i] = SpikeUv

\* C3: a call with last_n = n >= 0 returns the most recent min(n, filled)
\* samples, oldest first; on an empty buffer it returns nothing.
C3_BoundedSnapshot ==
    (rd.pc = "got" /\ rd.last_n # None) =>
        LET filled == Min(Len(rd.seen), buffer_size)
        IN  Pairs(rd.out) = LastK(rd.seen, Min(rd.last_n[1], filled))

\* ------------------------------------- one producer, one concurrent reader
\* A demo session whose samples are read by a caller of get_buffer_data that
\* runs at any time, statement by statement.

RaceInit ==
    /\ \E size \in 2..MaxCap : InitApp(size)
    /\ source_left = MaxSamples
    /\ spikes_left = MaxSpikes

RaceNext ==
    \/ start_demo
    \/ \E th \in ThreadIds : DemoWhile(th)
    \/ \E th \in ThreadIds : add_sample(th)
    \/ ReadFilled(None)
    \/ ReadStart
    \/ ReadTimes
    \/ ReadVoltages

RaceSpec == RaceInit /\ [][RaceNext]_vars

\* every sample handed to add_sample in this session
Handed ==
    {pushed[i] : i \in 1..Len(pushed)}
    \cup {threads[th].smp : th \in {x \in ThreadIds :
                               threads[x].pc \in {"a102", "a103", "a104", "a105"}}}

\* C2: every pair a reader gets is one sample as it was pushed, and the pairs
\* are in order of arrival.
C2_NoTornRead ==
    rd.pc = "got" =>
        /\ \A i \in 1..Len(rd.out.times) : Pairs(rd.out)[i] \in Handed
        /\ Increasing(rd.out.times)


\* ---------------------------------------- one producer and the broadcaster
\* A demo session on a buffer that wraps, with sinks that come and go and the
\* broadcaster ticking at any time, statement by statement.

BcInit ==
    /\ InitApp(MaxCap)
    /\ source_left = MaxSamples + 1
    /\ spikes_left = MaxSpikes

BcNext ==
    \/ start_demo
    \/ \E ws \in Sinks : ws_connect(ws)
    \/ \E ws \in Sinks : ws_disconnect(ws)
    \/ \E th \in ThreadIds : DemoWhile(th)
    \/ \E th \in ThreadIds : add_sample(th)
    \/ BcWake
    \/ Bc177
    \/ Bc183
    \/ Bc184
    \/ Bc190
    \/ BcPublish
    \/ ReadStart
    \/ ReadTimes
    \/ ReadVoltages

BroadcastSpec == BcInit /\ [][BcNext]_vars

\* C9: in a session whose ticks all found a sink, the raw slices published
\* follow one another with no sample left out and none repeated, and after a
\* tick every sample below the watermark has been published.
C9_NoSkipNoRepeat ==
    (recording /\ ~published.idle) =>
        /\ published.contiguous
        /\ bc.pc = "sleep" => bc.last_idx = published.raw_next

\* ------------------------------------------- the peaks of a filter window
\* A demo session of BcSamples samples, one of them a spike, on a buffer that
\* holds them all; a sink connects, and again when it was dropped.  The
\* calls of add_sample and of get_buffer_data each run whole, between any two
\* statements of the broadcaster.

PeakInit ==
    /\ InitApp(FilterWindow + 1)
    /\ source_left = BcSamples
    /\ spikes_left = MaxSpikes

PeakNext ==
    \/ start_demo
    \/ \E ws \in Sinks : ws_connect(ws)
    \/ \E th \in ThreadIds : DemoWhile(th)
    \/ \E th \in ThreadIds : add_sample_whole(th)
    \/ BcWake
    \/ Bc177
    \/ Bc183_whole
    \/ Bc190_whole

PeakSpec == PeakInit /\ [][PeakNext]_vars

\* C10: no sample is listed as a peak in two payloads of a session.
C10_NoPeakTwice == published.peaks_twice = {}

\* ------------------------------------------------- a session to its end
\* The session of the filter-window specification, which a stop may end;
\* no other session is started.

FirstStart ==
    /\ threads = <<>>
    /\ start_demo

SessionNext ==
    \/ FirstStart
    \/ \E ws \in Sinks : ws_connect(ws)
    \/ \E th \in ThreadIds : DemoWhile(th)
    \/ \E th \in ThreadIds : add_sample_whole(th)
    \/ BcWake
    \/ Bc177
    \/ Bc183_whole
    \/ Bc190_whole
    \/ stop_recording
    \/ stop_join

SessionSpec == PeakInit /\ [][SessionNext]_vars

\* the session was stopped and nothing happened since
Completed ==
    /\ handler = "idle"
    /\ ~recording
    /\ response.op = "stop"
    /\ response.status = "stopped"

\* the times and the voltages of the samples recorded in the session
Recorded ==
    [times |-> Tuple([i \in 1..Len(pushed) |-> pushed[i][1]]),
     voltages |-> Tuple([i \in 1..Len(pushed) |-> pushed[i][2]])]

\* the peaks that detect_peaks finds at a spike in the whole recording
SpikePeaks ==
    LET found == detect_peaks(apply_savgol_filter(Recorded.voltages), Recorded.times)
    IN  {i \in 1..Len(found) : /\ found[i].polarity = "positive"
                               /\ Recorded.voltages[found[i].index + 1] = SpikeUv}

\* C11: when a session ends whose ticks all found a sink and published every
\* sample recorded, and whose samples, filtered as a whole, show a peak at a
\* spike, peak_count is at least 1.
C11_SpikeCounted ==
    (/\ Completed
     /\ ~published.idle
     /\ published.contiguous
     /\ published.raw_next = Len(pushed)
     /\ Len(pushed) >= SAVGOL_WINDOW
     /\ SpikePeaks # {})
        => peak_count >= 1

\* ------------------------------------------------ the sinks of one tick
\* A demo session with one sink more than elsewhere; the sends of a tick are
\* awaited one by one, and clients connect and disconnect meanwhile.

ManySinks == 1..(MaxSinks + 1)

SinkInit ==
    /\ InitApp(MaxCap)
    /\ source_left = MaxSamples
    /\ spikes_left = 0

SinkNext ==
    \/ FirstStart
    \/ \E ws \in ManySinks : ws_connect(ws)
    \/ \E ws \in ManySinks : ws_disconnect(ws)
    \/ \E th \in ThreadIds : DemoWhile(th)
    \/ \E th \in ThreadIds : add_sample_whole(th)
    \/ BcWake
    \/ Bc177
    \/ Bc183_whole
    \/ Bc190_send
    \/ \E ws \in ManySinks, ok \in BOOLEAN : SendText(ws, ok)
    \/ SendEnd

SinkSpec == SinkInit /\ [][SinkNext]_vars

\* C12: when the sends of a tick are over, every sink of the copy was sent
\* the message or noted as failed, the failed ones are out of the active set,
\* no sink whose send returned has been taken out, and the broadcaster is back
\* in its sleep with its watermark.
C12_SinkFailureIsolated ==
    [][(bc.pc = "send" /\ bc'.pc = "sleep") =>
          /\ bc.sent \cup bc.disconnected = bc.copy
          /\ bc.sent \cap bc.disconnected = {}
          /\ ws_clients' \cap bc.disconnected = {}
          /\ ws_clients \cap bc.sent \subseteq ws_clients'
          /\ bc'.last_idx = bc.last_idx]_vars

\* a tick just ended in which one sink failed and another was sent the
\* message and is still active
C12_Witness ==
    /\ bc.pc = "sleep"
    /\ bc.disconnected # {}
    /\ bc.sent # {}
    /\ bc.sent \subseteq ws_clients
    /\ bc.disconnected \cap ws_clients = {}

\* ------------------------------------------------ the end of the producer

\* the worker of the only session so far has ended with samples recorded and
\* no stop accepted
EndedOnItsOwn ==
    /\ handler = "idle"
    /\ Len(threads) = 1
    /\ record_thread \in ThreadIds
    /\ threads[record_thread].kind = "worker"
    /\ ~Alive(record_thread)
    /\ Len(pushed) > 0

\* C13: when the worker has ended on a failure of the source, the recorder is
\* idle and the session's CSV is closed as after a stop.
C13_AutoFinalized ==
    EndedOnItsOwn => (~recording /\ csv_file = 0 /\ csv_writer = 0)

\* C14: whatever the CSV write of lines 110-119 does, the thread that made it
\* stays in its producer loop.
C14_WriteFailureAbsorbed ==
    [][\A th \in ThreadIds :
          threads[th].pc = "a110" =>
              threads'[th].pc \in {"a110", "d_while", "resume"}]_vars

\* C15: with no stop requested, a poll answered by a line that is not JSON
\* leaves the worker in its producer loop.
C15_BadReadAbsorbed ==
    [][\A th \in ThreadIds :
          (threads[th].pc = "loop" /\ ~stop_event) =>
              threads'[th].pc # AfterPoll("garbled")]_vars

\* --------------------------------------------------- rejected starts

\* a start request whose channel or voltage range is not one the logger has
InvalidStart ==
    \E channel \in Channels, voltage_range \in Ranges, connect_ok, configure_ok \in BOOLEAN :
        /\ channel \notin 1..MaxChannel \/ voltage_range \notin RangeNames
        /\ start_recording(channel, voltage_range, connect_ok, configure_ok)

\* a start request during which connect() or configure() fails
FailedStart ==
    \E channel \in Channels, voltage_range \in Ranges :
        \/ ~connected /\ start_recording(channel, voltage_range, FALSE, TRUE)
        \/ start_recording(channel, voltage_range, TRUE, FALSE)

\* C16: a start request with an invalid channel or voltage range, or one
\* whose connect or configure step fails, is answered with an error and
\* changes neither the recorder state nor the driver's stored configuration.
C16_InvalidStartRejected ==
    [][(~recording /\ (InvalidStart \/ FailedStart)) =>
          /\ response'.status \in {"Connection failed", "Internal Server Error"}
          /\ ~recording'
          /\ UNCHANGED <<appvars, config>>]_vars

\* ------------------------------------------------ one writer, whole calls
\* One demo session after another, each add_sample call taken as a whole:
\* the demo thread is the only caller and ends before stop returns.

WriterNext ==
    \/ start_demo
    \/ stop_recording
    \/ stop_join
    \/ \E th \in ThreadIds : DemoWhile(th)
    \/ \E th \in ThreadIds : add_sample_whole(th)

WriterSpec == RingInit /\ [][WriterNext]_vars

\* the slots of the ring buffer
Slots == 0..(buffer_size - 1)

\* the slot of the oldest sample still in a full buffer
OldestSlot ==
    CHOOSE s \in Slots :
        /\ times_buffer[s] = pushed[Len(pushed) - buffer_size + 1][1]
        /\ voltage_buffer[s] = pushed[Len(pushed) - buffer_size + 1][2]

\* C17: a call of add_sample by the only writer stores its sample in the next
\* free slot while the buffer is not full, and in the slot of the oldest
\* remaining sample once it is full; every other slot keeps its content, and
\* afterwards each of the last min(N, buffer_size) samples of the session is
\* in exactly one of the filled slots.
C17_OverwriteOldest ==
    [][\A th \in ThreadIds :
         ((\A o \in ThreadIds \ {th} : ~Alive(o)) /\ add_sample_whole(th)) =>
            LET target == IF buffer_filled < buffer_size THEN buffer_filled
                          ELSE OldestSlot
                N == Len(pushed')
            IN  /\ times_buffer'[target] = threads[th].smp[1]
                /\ voltage_buffer'[target] = threads[th].smp[2]
                /\ \A s \in Slots \ {target} :
                      /\ times_buffer'[s] = times_buffer[s]
                      /\ voltage_buffer'[s] = voltage_buffer[s]
                /\ buffer_filled' = Min(N, buffer_size)
                /\ \A i \in (N - Min(N, buffer_size) + 1)..N :
                      Cardinality({s \in 0..(buffer_filled' - 1) :
                                     /\ times_buffer'[s] = pushed'[i][1]
                                     /\ voltage_buffer'[s] = pushed'[i][2]}) = 1]_vars

\* the sample after the one that filled the buffer has taken the place of
\* the first sample of the session, and the second is still where it was
C17_Witness ==
    /\ buffer_size > 1
    /\ Len(pushed) = buffer_size + 1
    /\ buffer_idx = buffer_size + 1
    /\ times_buffer[0] = pushed[buffer_size + 1][1]
    /\ times_buffer[1] = pushed[2][1]

\* ------------------------------------------------------- the counters
\* The lifecycle with room for one more session, on a buffer of one slot fed
\* a single baseline sample.

CounterInit ==
    /\ InitSessions(1, MaxThreads + 1)
    /\ source_left = 1
    /\ spikes_left = 0

CounterSpec == CounterInit /\ [][Next]_vars


\* C18: whenever no thread is inside add_sample, buffer_filled is
\* min(buffer_idx, buffer_size) and sample_count equals buffer_idx; and while
\* recording, buffer_idx and sample_count never decrease.
C18_CountersAgree ==
    /\ []((\A th \in ThreadIds : ~InAddSample(th)) =>
            /\ buffer_filled = Min(buffer_idx, buffer_size)
            /\ sample_count = buffer_idx)
    /\ [][(recording /\ recording') =>
            (buffer_idx' >= buffer_idx /\ sample_count' >= sample_count)]_vars

\* ------------------------------------------------------------ the CSV

\* a stop has been answered, no start since, and no add_sample is under way
Stopped ==
    /\ handler = "idle"
    /\ response.op = "stop"
    /\ response.status = "stopped"
    /\ ~recording
    /\ \A th \in ThreadIds : ~InAddSample(th)

\* C19: the CSV of a session has exactly one header row, and after stop, when
\* no write to it failed, as many data rows as the session's sample_count.
C19_CsvMatchesSession ==
    (Stopped /\ ~csv_rows[session_id].failed) =>
        /\ csv_rows[session_id].header = 1
        /\ csv_rows[session_id].data = sample_count

\* ------------------------------------------------- writer and readers

\* a call of get_buffer_data is under way
Reading == rd.pc \in {"start", "times", "voltages"}

\* C20: a thread inside add_sample can always take its next step, whatever
\* a caller of get_buffer_data is doing.
C20_WriterNeverWaits ==
    \A th \in ThreadIds : InAddSample(th) => ENABLED add_sample(th)

\* a sample went into the buffer while a snapshot was being copied
C20_Witness ==
    /\ Reading
    /\ Len(pushed) > Len(rd.seen)
    /\ \E th \in ThreadIds : InAddSample(th)

\* ------------------------------------------- signal_processing, called
\* A caller passes one array to apply_savgol_filter, detect_peaks or
\* process_window, and may write into the array it got back.

\* the voltages of the windows, in microvolt
Values == {0 - SpikeUv, 0, SpikeUv}

\* a flat baseline of n samples
ZeroWindow(n) == [i \in 1..n |-> 0]

\* a flat baseline of n samples with v at position k (1-based)
SpikeWindow(n, k, v) == [i \in 1..n |-> IF i = k THEN v ELSE 0]

\* the windows passed: every sequence of up to MaxShort values, every flat
\* window and every window with one spike, of up to MaxWindow samples
Signals ==
    UNION {[1..n -> Values] : n \in 0..MaxShort}
    \cup {ZeroWindow(n) : n \in 0..MaxWindow}
    \cup {SpikeWindow(n, k, v) : n \in 1..MaxWindow, k \in 1..MaxWindow,
                                 v \in {0 - SpikeUv, SpikeUv}}

\* timestamps of n samples: one per sample period, or all the same
Timings(n) == {[i \in 1..n |-> i - 1], [i \in 1..n |-> 0]}

\* microvolt to 1/Scale microvolt
Scaled(x) == Tuple([i \in 1..Len(x) |-> Scale * x[i]])

spframe == <<appvars, drvvars, threads, source_left, spikes_left, handler,
             response, bc, rd, pushed, published>>

\* filtered = apply_savgol_filter(signal)
FilterCall(x) ==
    /\ sp.pc = "idle"
    /\ LET r == apply_savgol_filter_ref(<<Scaled(x)>>, 1)
       IN  sp' = [NoCaller EXCEPT !.pc = "filtered", !.heap = r.heap, !.arg = 1,
                                  !.ret = r.ret, !.given = Scaled(x)]
    /\ UNCHANGED spframe

\* filtered[i] += 1.0, by the caller
ResultWrite(i) ==
    /\ sp.pc = "filtered"
    /\ i \in 1..Len(sp.heap[sp.ret])
    /\ sp' = [sp EXCEPT !.heap[sp.ret][i] = sp.heap[sp.ret][i] + Scale,
                        !.pc = "written"]
    /\ UNCHANGED spframe

\* peaks = detect_peaks(signal, times)
DetectCall(x, times) ==
    /\ sp.pc = "idle"
    /\ sp' = [NoCaller EXCEPT !.pc = "detected", !.given = Scaled(x),
                              !.times = times,
                              !.result = detect_peaks(Scaled(x), times)]
    /\ UNCHANGED spframe

\* result = process_window(times, raw_uv)
ProcessCall(x, times) ==
    /\ sp.pc = "idle"
    /\ sp' = [NoCaller EXCEPT !.pc = "processed", !.given = x, !.times = times,
                              !.result = process_window(times, x)]
    /\ UNCHANGED spframe

\* the caller drops what it holds
SignalDone ==
    /\ sp.pc # "idle"
    /\ sp' = NoCaller
    /\ UNCHANGED spframe

SignalInit ==
    /\ InitApp(MaxCap)
    /\ source_left = 0
    /\ spikes_left = 0

SignalNext ==
    \/ \E x \in Signals : FilterCall(x)
    \/ \E i \in 1..MaxWindow : ResultWrite(i)
    \/ \E x \in Signals : \E times \in Timings(Len(x)) : DetectCall(x, times)
    \/ \E x \in Signals : \E times \in Timings(Len(x)) : ProcessCall(x, times)
    \/ SignalDone

SignalSpec == SignalInit /\ [][SignalNext]_vars

\* C21: for a signal of fewer than 11 samples, apply_savgol_filter returns
\* an array with the elements of the signal, which is not the array passed:
\* a write into it leaves the signal as it was.
C21_ShortWindowCopied ==
    (sp.pc \in {"filtered", "written"} /\ Len(sp.given) < SAVGOL_WINDOW) =>
        /\ sp.ret # sp.arg
        /\ sp.heap[sp.arg] = sp.given
        /\ sp.pc = "filtered" => sp.heap[sp.ret] = sp.given

\* the copy of a ten-sample window with a spike was written into
C21_Witness ==
    /\ sp.pc = "written"
    /\ Len(sp.given) = SAVGOL_WINDOW - 1
    /\ \E i \in 1..Len(sp.given) : sp.given[i] = Scale * SpikeUv
    /\ sp.heap[sp.ret] # sp.given

\* C22: for a flat window with one spike of +50 at position k, whatever k,
\* detect_peaks returns exactly one peak, positive, with index k; for a spike
\* of -50, exactly one peak, negative, with index k.
C22_SingleSpikeDetected ==
    sp.pc = "detected" =>
        \A k \in 1..Len(sp.given), v \in {0 - SpikeUv, SpikeUv} :
            sp.given = Scaled(SpikeWindow(Len(sp.given), k, v)) =>
                /\ Len(sp.result) = 1
                /\ sp.result[1].index = k - 1
                /\ sp.result[1].polarity = IF v > 0 THEN "positive" ELSE "negative"

\* a float that is 0.0, and neither nan nor inf
IsZero(q) == q.num = 0 /\ q.den > 0

\* C23: for an all-zero window of any length from 0 up, process_window
\* returns no peaks, and a mean amplitude, a spike frequency and an rms noise
\* of 0.
C23_ZeroWindowDegenerate ==
    (sp.pc = "processed" /\ sp.given = ZeroWindow(Len(sp.given))) =>
        /\ sp.result.peaks = <<>>
        /\ IsZero(sp.result.mean_amplitude_uv)
        /\ IsZero(sp.result.spike_frequency_hz)
        /\ IsZero(sp.result.rms_noise_uv_squared)

\* the empty window was processed
C23_Witness ==
    /\ sp.pc = "processed"
    /\ sp.given = <<>>
    /\ sp.result.filtered_uv = <<>>

\* -------------------------------------------- the driver's preconditions
\* A caller connects, configures and disconnects the driver in any order, and
\* starts threads that iterate stream(); nothing is recording.

\* threading.Thread(target=_recording_worker).start()
IterateStream ==
    /\ Len(threads) < Len(csv_rows)
    /\ threads' = Append(threads, NewThread("worker"))
    /\ UNCHANGED <<appvars, drvvars, source_left, spikes_left, othervars, pushed>>

DriverInit ==
    /\ InitApp(MaxCap)
    /\ source_left = 1
    /\ spikes_left = 0

DriverNext ==
    \/ \E bridge_ok \in BOOLEAN : driver_connect(bridge_ok)
    \/ \E channel \in Channels, voltage_range \in Ranges, bridge_ok \in BOOLEAN :
          driver_configure(channel, voltage_range, bridge_ok)
    \/ driver_disconnect
    \/ IterateStream
    \/ \E th \in ThreadIds : StreamBegin(th)
    \/ \E th \in ThreadIds : StreamLoop(th)
    \/ \E th \in ThreadIds : StreamWake(th)
    \/ \E th \in ThreadIds : StreamFinally(th)
    \/ \E th \in ThreadIds : WorkerCheck(th)
    \/ \E th \in ThreadIds : WorkerFinally(th)

DriverSpec == DriverInit /\ [][DriverNext]_vars

\* C24: configure() on a driver that is not connected raises and leaves the
\* stored configuration as it was; stream() on a driver that is not connected
\* or not configured ends without a command written, a sample taken from the
\* source or the streaming flag set; connect() on a connected driver and
\* disconnect() on a driver that is not connected change nothing.
C24_DriverPreconditions ==
    [][/\ (~connected /\ \E channel \in Channels, voltage_range \in Ranges,
                            bridge_ok \in BOOLEAN :
                            driver_configure(channel, voltage_range, bridge_ok)) =>
             (response'.status = "Not connected" /\ UNCHANGED drvvars)
       /\ \A th \in ThreadIds :
             (~(connected /\ config # NoConfig) /\ StreamBegin(th)) =>
                 /\ threads'[th].pc = "fin"
                 /\ ~threads'[th].sent
                 /\ UNCHANGED <<drvvars, source_left>>
       /\ (connected /\ \E bridge_ok \in BOOLEAN : driver_connect(bridge_ok)) =>
             UNCHANGED drvvars
       /\ (~connected /\ driver_disconnect) => UNCHANGED drvvars]_vars

\* stream() was iterated on a driver that had been configured and then
\* disconnected, after a configure() had been refused
C24_Witness ==
    /\ ~connected
    /\ config # NoConfig
    /\ \E th \in ThreadIds : threads[th].pc = "fin" /\ ~threads[th].sent
    /\ \E th \in ThreadIds : threads[th].sent
    /\ response.status = "Not connected"

\* ------------------------------------- sessions, sinks and the broadcaster
\* Demo sessions one after another, stopped and started again, with sinks
\* that come and go and the broadcaster ticking at any time; the calls of
\* add_sample and of get_buffer_data each run whole.

RestartInit ==
    /\ InitApp(MaxCap)
    /\ source_left = MaxSamples + 1
    /\ spikes_left = 0

RestartNext ==
    \/ start_demo
    \/ stop_recording
    \/ stop_join
    \/ \E ws \in Sinks : ws_connect(ws)
    \/ \E ws \in Sinks : ws_disconnect(ws)
    \/ \E th \in ThreadIds : DemoWhile(th)
    \/ \E th \in ThreadIds : add_sample_whole(th)
    \/ BcWake
    \/ Bc177
    \/ Bc183_whole
    \/ Bc190_whole

RestartSpec == RestartInit /\ [][RestartNext]_vars

\* a tick that finds no session or no sink
IdleTick == BcWake /\ (~recording \/ ws_clients = {})

\* a tick takes its raw slice (lines 183-184)
SliceTaken == bc.pc \in {"t183", "t183r"} /\ bc'.pc \in {"t190", "sleep"}

\* C25: a tick that finds no session or no sink sends nothing, leaves
\* peak_count alone and moves the watermark to the write cursor; and in a
\* session that had such a tick the watermark never moves back and no raw
\* slice holds a sample from below it, so what an idle tick passed over is
\* never sent later.
C25_IdleTickSkips ==
    [][/\ IdleTick =>
             /\ bc'.last_idx = buffer_idx
             /\ bc'.pc = "sleep"
             /\ UNCHANGED <<peak_count, ws_clients>>
             /\ published' = [published EXCEPT !.idle = TRUE]
       /\ (recording /\ recording' /\ published.idle /\ published'.idle) =>
             bc'.last_idx >= bc.last_idx
       /\ (recording /\ published.idle /\ SliceTaken) =>
             \A i \in 1..Len(bc'.times) : bc'.times[i] >= bc.last_idx]_vars

\* C26: the raw slice of every payload has at least one and at most
\* CapPerTick samples: the newest min(cursor - watermark, CapPerTick) samples
\* of the buffer, the first tick after a stop and a new start included.
C26_PayloadBounded ==
    [][(SliceTaken /\ bc'.pc = "t190") =>
          LET n == Min(bc.current_idx - bc.last_idx, CapPerTick)
              held == get_buffer_data(times_buffer, voltage_buffer, buffer_idx,
                                      buffer_filled, buffer_size, None)
          IN  /\ n >= 1
              /\ Len(bc'.times) = n
              /\ Len(bc'.times) <= CapPerTick
              /\ bc'.times = LastK(held.times, n)]_vars

\* ------------------------------------------- sessions with a filter window
\* The sessions of the filter-window specification, stopped and started
\* again: a session can be long enough for the filter and have a spike.
\* The starts and stops are the accepted ones.

\* the starts that are accepted
AcceptedStart ==
    /\ ~recording
    /\ start_demo

\* the stops that are accepted
AcceptedStop ==
    /\ recording
    /\ stop_recording

RecountNext ==
    \/ AcceptedStart
    \/ AcceptedStop
    \/ stop_join
    \/ \E ws \in Sinks : ws_connect(ws)
    \/ \E th \in ThreadIds : DemoWhile(th)
    \/ \E th \in ThreadIds : add_sample_whole(th)
    \/ BcWake
    \/ Bc177
    \/ Bc183_whole
    \/ Bc190_whole

RecountSpec == PeakInit /\ [][RecountNext]_vars

\* a payload is built and sent
PayloadSent == bc.pc = "t190" /\ bc'.pc \in {"sleep", "send"}

\* C27: peak_count is the sum of the lengths of the peaks lists of the
\* payloads built since the session was started; a tick adds the length of
\* its payload's list, nothing but an accepted start takes the counter down,
\* and an accepted start sets it to 0.
C27_PeaksAccounted ==
    /\ [](peak_count = published.peaks_listed)
    /\ [][/\ PayloadSent =>
               /\ peak_count' - peak_count =
                      published'.peaks_listed - published.peaks_listed
               /\ peak_count' >= peak_count
          /\ session_id' = session_id => peak_count' >= peak_count
          /\ session_id' # session_id => peak_count' = 0]_vars

\* a session whose ticks counted peaks was stopped, and a start would be
\* accepted
C27_Witness ==
    /\ ~recording
    /\ handler = "idle"
    /\ peak_count > 0
    /\ published.peaks_listed = peak_count
    /\ Len(threads) < MaxThreads

\* C28: a tick that goes on to read the cursor finds the watermark at or
\* below it, and the number of new samples it computes is never negative,
\* whatever starts, stops and ticks came before.
C28_WatermarkBehind ==
    /\ bc.pc = "t177" => bc.last_idx <= buffer_idx
    /\ bc.new_count >= 0

\* the buffer as the call of line 190 finds it
WindowNow ==
    get_buffer_data(times_buffer, voltage_buffer, buffer_idx, buffer_filled,
                    buffer_size, Some(FilterWindow))

\* C29: when a tick builds its payload the raw slice is the tail of the
\* filter window, sample for sample, so each filtered value sent is the
\* filtered value of the raw sample sent at the same position, also when the
\* producer pushes between the reads of the tick.
C29_OneBufferState ==
    [][PayloadSent =>
          /\ Len(WindowNow.times) >= Len(bc.times)
          /\ SliceFrom(WindowNow.times, 0 - Len(bc.times)) = bc.times
          /\ SliceFrom(WindowNow.voltages, 0 - Len(bc.times)) = bc.voltages]_vars

\* ------------------------------------- a buffer longer than the filter window
\* Two sessions on a buffer that holds more than the filter window, with
\* samples enough for a short session and one that fills the buffer.  The
\* first session has no sink, so its ticks would only move the watermark;
\* the ticks kept are those after its stop and those of the second session.

LongInit ==
    /\ InitApp(FilterWindow + 2)
    /\ source_left = FilterWindow + 3
    /\ spikes_left = 0

\* the sink connects once a second session was started
LateConnect(ws) ==
    /\ session_id > 1
    /\ ws_connect(ws)

\* a tick after the first session was stopped
LateWake ==
    /\ ~recording \/ session_id > 1
    /\ BcWake

LongNext ==
    \/ AcceptedStart
    \/ AcceptedStop
    \/ stop_join
    \/ \E ws \in Sinks : LateConnect(ws)
    \/ \E th \in ThreadIds : DemoWhile(th)
    \/ \E th \in ThreadIds : add_sample_whole(th)
    \/ LateWake
    \/ Bc177
    \/ Bc183_whole
    \/ Bc190_whole

LongSpec == LongInit /\ [][LongNext]_vars

\* the payload the tick is about to send
PayloadNow == Payload(bc.times, bc.voltages, WindowNow)

\* C30: times, raw_uv and filtered_uv have the same length in every payload
\* sent.
C30_ArraysAligned ==
    [][PayloadSent =>
          /\ Len(PayloadNow.raw_uv) = Len(PayloadNow.times)
          /\ Len(PayloadNow.filtered_uv) = Len(PayloadNow.times)]_vars

====
